---- MODULE Spec2Model ----
(***************************************************************************)
(* Runtime plugin loader of the k-11 shell.                                *)
(*                                                                         *)
(* The model follows packages/plugin-loader: ModuleFederationLoader        *)
(* (loadModule, loadRemoteContainer, initializeSharing), and the way       *)
(* PluginLoader/ReactLoader construct a loader for every load; the         *)
(* dispatch of PluginLoader.load on the framework tag with the strategies  *)
(* of ReactLoader, AngularLoader and HtmlLoader; and the extraction of the *)
(* component from a realized module.                                       *)
(*                                                                         *)
(* JavaScript runs one task at a time.  One action of the model is one     *)
(* task (a call, a DOM event, a timer, the completion of an awaited        *)
(* external promise) together with the promise reactions it makes ready:   *)
(* when a load promise settles, the continuations of all the calls that    *)
(* await it run in registration order before any other task can run, so    *)
(* the settling action runs them.  The single place where a continuation   *)
(* is kept as a step of its own is the point after                         *)
(* `await this.initializeSharing()` (phase "check"); while such a          *)
(* continuation is ready no other action is enabled (NoMicrotask).         *)
(***************************************************************************)
EXTENDS Integers, FiniteSets, Sequences, TLC

\* Number of load calls a behaviour may make.
MaxCalls == 2

Calls == 1..MaxCalls

\* Number of fields a realized module object may have.
MaxFields == 3

\* Number of descriptors in a catalog response.
MaxPlugins == 3

\* Number of loads the shell starts where its logins, logouts and visits
\* are followed (SpecAuth).
MaxLoads == 1

\* The loader instance shared by direct loadModule calls; a PluginLoader.load
\* call c constructs its own instance, named c.
SharedLoader == "shared"
FreshLoader(c) == ToString(c)
Loaders == {SharedLoader} \cup {FreshLoader(c) : c \in Calls}

\* Remote keys: <<remoteName, entryUrl>>, the parts of `${remoteScope}@${url}`.
Names == {"n1", "n2"}
Urls == {"u1", "u2"}
Keys == {<<"n1", "u1">>, <<"n2", "u2">>, <<"n1", "u2">>}
RemoteKey(name, url) == <<name, url>>
\* The first call of a behaviour loads FirstKey (the remotes are alike, so
\* which one comes first does not matter); a previous page may have left a
\* container under FirstName.
FirstName == "n1"
FirstKey == <<"n1", "u1">>
KeyName(k) == k[1]
KeyUrl(k) == k[2]

\* Module paths a caller may ask for; a remote exposes "./App" only.
Paths == {"./App", "./Missing"}

\* Container objects: the one a previous page left in the registry, and one
\* per execution of an injected script (named after the attempt).
NoContainer == "none"
PrevContainer == "prev"
ScriptContainer(a) == ToString(a)
Containers == {NoContainer, PrevContainer} \cup {ScriptContainer(a) : a \in Calls}

\* Framework tags: PluginFramework of the descriptor type, and a value
\* outside it (the tag comes from the catalog's JSON and is not validated).
Frameworks == {"react", "vue", "angular", "html"}
FrameworkTags == Frameworks \cup {"svelte"}

\* Field names of realized modules: the names the extraction looks up, and
\* "Widget", which it looks up only for module path "./Widget".
FieldNames == {"default", "App", "Component", "InboxApp", "MonitoringApp", "Widget"}

\* Values a field may hold, by what the code can tell apart: a function, a
\* React element (an object with $$typeof), another truthy value, a falsy
\* value that is neither null nor undefined (0, "", false), and null.
ValueKinds == {"function", "element", "object", "falsy", "null"}

\* A value is <<kind, origin>>; the origin tells the values of two fields apart.
Undefined == <<"undefined", "">>
Null == <<"null", "">>

\* A realized module: an object with its fields in insertion order, a
\* function, or another value (a primitive or null).
ObjectModule(fields) == [type |-> "object", fields |-> fields]
FunctionModule == [type |-> "function", fields |-> <<>>]
OtherModule == [type |-> "other", fields |-> <<>>]
NoModule == [type |-> "none", fields |-> <<>>]

\* The order in which the remote's source assigns its exports
ExportOrder == <<"Widget", "MonitoringApp", "InboxApp", "Component", "App", "default">>

\* The object whose fields S hold the values kinds[f], inserted in ExportOrder
ObjectOf(S, kinds) ==
  LET names == SelectSeq(ExportOrder, LAMBDA f : f \in S)
  IN ObjectModule([i \in 1..Len(names) |-> <<names[i], kinds[names[i]]>>])

ObjectModules ==
  UNION {{ObjectOf(S, kinds) : kinds \in [S -> ValueKinds]} :
            S \in {T \in SUBSET FieldNames : Cardinality(T) <= MaxFields}}

Modules == ObjectModules \cup {FunctionModule, OtherModule}

\* The modules a load through PluginLoader may realize: those with at most
\* one field, a function and a primitive.
DispatchModules ==
  {ObjectModule(<<>>), FunctionModule, OtherModule}
    \cup {ObjectModule(<<<<f, k>>>>) : f \in FieldNames, k \in ValueKinds}

\* Module paths as character sequences (the name after "./" is one token)
ExtractPaths == {<<".", "/", "App">>, <<".", "/", "InboxApp">>, <<".", "/", "Widget">>}

\* Response bodies of an html plugin
Bodies == {"", "<p>plugin</p>"}

\* LoadedPlugin, types.ts: the kind and its payload
NotLoaded == [kind |-> "none", component |-> Undefined, html |-> "none", iframeSrc |-> "none"]
LoadedReact(component) ==
  [kind |-> "react", component |-> component, html |-> "none", iframeSrc |-> "none"]
LoadedHtml(html) ==
  [kind |-> "html", component |-> Undefined, html |-> html, iframeSrc |-> "none"]
LoadedAngular(src) ==
  [kind |-> "angular", component |-> Undefined, html |-> "none", iframeSrc |-> src]

NotExtracted == [done |-> FALSE]

\* No response of the html fetch has arrived
NoResponse == [arrived |-> FALSE, ok |-> FALSE, text |-> ""]

\* Plugin descriptors of a catalog, types.ts: the id and the enabled flag
PluginIds == {"k11-inbox", "legacy-erp"}
Descriptors == [id : PluginIds, enabled : BOOLEAN]

\* JSON arrays of descriptors a server may answer with
RECURSIVE ListsOf(_, _)
ListsOf(S, n) ==
  IF n = 0 THEN {<<>>}
  ELSE ListsOf(S, n - 1) \cup
       {Append(l, x) : l \in {m \in ListsOf(S, n - 1) : Len(m) = n - 1}, x \in S}
CatalogLists == ListsOf(Descriptors, MaxPlugins)

\* MOCK_PLUGINS, PluginRegistry.ts lines 10-54: three descriptors, all enabled
MockPlugins == <<[id |-> "k11-inbox", enabled |-> TRUE],
                 [id |-> "k11-monitoring", enabled |-> TRUE],
                 [id |-> "legacy-erp", enabled |-> TRUE]>>

\* The content-type header as its media type followed by its parameters;
\* <<>> is a response without the header
ContentTypes == {<<>>, <<"application/json">>, <<"application/json", "charset=utf-8">>,
                 <<"text/html">>, <<"text/html", "charset=utf-8">>}

\* A response body: the JSON text of an array of descriptors, or text that
\* is not JSON (an HTML error page)
JsonBody(list) == [json |-> TRUE, list |-> list]
HtmlBody == [json |-> FALSE, list |-> <<>>]
CatalogBodies == {JsonBody(l) : l \in CatalogLists} \cup {HtmlBody}

\* The two fetchPlugins of the repository: PluginRegistry.ts lines 57-103
\* (mock switch, content-type check) and lines 115-125
RegistryVersions == {"checking", "plain"}

NoCatalogResponse == [arrived |-> FALSE, ok |-> FALSE, ctype |-> <<>>, body |-> HtmlBody]
IdleCatalog(v, mock) ==
  [st |-> "idle", version |-> v, mock |-> mock, resp |-> NoCatalogResponse,
   textRead |-> FALSE, jsonCalled |-> FALSE, result |-> <<>>, err |-> "none"]

\* The routes of the shell, App: /auth, the dashboard, and one route per
\* plugin of the catalog
PluginRoutes == {"/inbox", "/monitoring"}
Locations == {"/auth", "/"} \cup PluginRoutes
NoRoute == "none"

\* The descriptor behind a plugin route: its remoteName and entryUrl
RouteKey(r) == IF r = "/inbox" THEN RemoteKey("n1", "u1") ELSE RemoteKey("n2", "u2")

\* AuthProvider's user state, part_002 line 59
NoUser == "none"
Users == {NoUser, "user@k11"}

\* No DynamicRoute is mounted; a mounting one starts from the useState
\* defaults, DynamicRoute.tsx lines 12-14.  error and loaded name the load
\* (call) whose error or module they hold, 0 for null.
Unmounted ==
  [plugin |-> NoRoute, inst |-> 0, current |-> 0, loading |-> TRUE, error |-> 0, loaded |-> 0]

\* The shell at location loc before anybody logged in and before the
\* plugin list arrived; limit is the number of loads followed
InitialShell(loc) ==
  [user |-> NoUser, location |-> loc, visited |-> loc, plugins |-> FALSE,
   route |-> Unmounted, limit |-> MaxCalls,
   instOf |-> [c \in Calls |-> 0], authAtStart |-> [c \in Calls |-> FALSE],
   notified |-> {}]

VARIABLES
  fed,                \* the host has the federation runtime: typeof __webpack_init_sharing__ === "function" and __webpack_share_scopes__.default exists
  slot,               \* window[remoteName]
  slotSfx,            \* window[`${remoteName}_container`]
  sharingInitialized, \* per loader instance
  loadedContainers,   \* per loader instance: key -> attempt (0: no entry)
  callSt,             \* position of each call
  callVia,            \* "direct" (loadModule) or "plugin" (PluginLoader.load)
  callLoader, callKey, callPath,
  callAtt,            \* the attempt (load promise) the call awaits
  callErr,            \* kind of error the call was rejected with
  callRes,            \* container whose module the call resolved with
  factoryCalls,       \* per call: number of factory() invocations
  settledAtStart,     \* per call: calls for the same loader and key that had settled when it started
  prevErr,            \* per call: error of the latest earlier call for the same loader and key, read when it started
  phase,              \* per attempt: position of loadRemoteContainer and its handlers
  prom,               \* per attempt: state of the load promise
  promRes, promErr,   \* per attempt: container / error kind it settled with
  script,             \* per attempt: the injected script element
  timer,              \* per attempt: the 30 s timer
  slotAtCheck,        \* per attempt: window[remoteName] read at line 56
  initCalls,          \* per attempt: number of container.init invocations
  initOf,             \* per attempt: container whose init was invoked
  initFn,             \* per attempt: the container it found has an init function ("unknown" before it looked)
  initRes,            \* per attempt: how the init invocation ended ("none", "pending", "ok", "failed")
  negCalled,          \* per attempt: it invoked __webpack_init_sharing__
  negDone,            \* per attempt: that invocation completed
  callFw,             \* per call: plugin.framework
  callRemote,         \* per call: the descriptor has a remoteName
  loaded,             \* per call: the LoadedPlugin that PluginLoader.load resolved with
  fetches,            \* per call: number of fetch() calls
  imports,            \* per call: number of dynamic import() calls
  response,           \* per call: the HTTP response that fetch(plugin.entryUrl) resolved with
  realized,           \* the realized module given to the extraction
  modPath,            \* the module path given to the extraction
  extracted,          \* what the two extractions made of them
  catalog,            \* PluginRegistry.fetchPlugins: its position, the response and the result
  shell               \* the shell: AuthProvider's user, the location, and the mounted DynamicRoute

callVars == <<callSt, callVia, callLoader, callKey, callPath, callAtt, callErr,
              callRes, factoryCalls, settledAtStart, prevErr>>
attVars == <<phase, prom, promRes, promErr, script, timer, slotAtCheck, initCalls,
             initOf, initFn, initRes, negCalled, negDone>>
dispVars == <<callFw, callRemote, loaded, fetches, imports, response>>
extVars == <<realized, modPath, extracted>>
shellVars == <<catalog, shell>>
vars == <<fed, slot, slotSfx, sharingInitialized, loadedContainers, callVars, attVars,
          dispVars, extVars, shellVars>>

NoKey == <<"none", "none">>

\* The state after construction, in a host with (f) or without the
\* federation runtime.
InitWith(f) ==
  /\ fed = f
  /\ slot \in {[n \in Names |-> NoContainer],
               [n \in Names |-> IF n = FirstName THEN PrevContainer ELSE NoContainer]}
  /\ slotSfx = [n \in Names |-> NoContainer]
  /\ sharingInitialized = [l \in Loaders |-> FALSE]
  /\ loadedContainers = [l \in Loaders |-> [k \in Keys |-> 0]]
  /\ callSt = [c \in Calls |-> "idle"]
  /\ callVia = [c \in Calls |-> "none"]
  /\ callLoader = [c \in Calls |-> "none"]
  /\ callKey = [c \in Calls |-> NoKey]
  /\ callPath = [c \in Calls |-> "none"]
  /\ callAtt = [c \in Calls |-> 0]
  /\ callErr = [c \in Calls |-> "none"]
  /\ callRes = [c \in Calls |-> NoContainer]
  /\ factoryCalls = [c \in Calls |-> 0]
  /\ settledAtStart = [c \in Calls |-> {}]
  /\ prevErr = [c \in Calls |-> "none"]
  /\ phase = [a \in Calls |-> "none"]
  /\ prom = [a \in Calls |-> "none"]
  /\ promRes = [a \in Calls |-> NoContainer]
  /\ promErr = [a \in Calls |-> "none"]
  /\ script = [a \in Calls |-> "none"]
  /\ timer = [a \in Calls |-> "none"]
  /\ slotAtCheck = [a \in Calls |-> "unread"]
  /\ initCalls = [a \in Calls |-> 0]
  /\ initOf = [a \in Calls |-> NoContainer]
  /\ initFn = [a \in Calls |-> "unknown"]
  /\ initRes = [a \in Calls |-> "none"]
  /\ negCalled = [a \in Calls |-> FALSE]
  /\ negDone = [a \in Calls |-> FALSE]
  /\ callFw = [c \in Calls |-> "none"]
  /\ callRemote = [c \in Calls |-> FALSE]
  /\ loaded = [c \in Calls |-> NotLoaded]
  /\ fetches = [c \in Calls |-> 0]
  /\ imports = [c \in Calls |-> 0]
  /\ response = [c \in Calls |-> NoResponse]
  /\ extracted = NotExtracted

\* No module has been handed to the extraction.
NoExtraction == realized = NoModule /\ modPath = <<>>

\* No catalog is fetched and the shell is not rendered.
NoRegistry == catalog = IdleCatalog("checking", FALSE)
NoShell == shell = InitialShell("/auth")

\* The shell is built with ModuleFederationPlugin (apps/shell/webpack.config.js),
\* so __webpack_init_sharing__ and the default share scope exist.
Init == InitWith(TRUE) /\ NoExtraction /\ NoRegistry /\ NoShell

\* A host built without the plugin.
InitNoFederation == InitWith(FALSE) /\ NoExtraction /\ NoRegistry /\ NoShell

Pending(c) == callSt[c] \in {"await_load", "await_cached", "await_get",
                             "await_import", "await_fetch", "await_text"}
Settled(c) == callSt[c] \in {"resolved", "rejected"}

\* A continuation of `await this.initializeSharing()` is ready to run.
NoMicrotask == \A a \in Calls : phase[a] # "check"

(***************************************************************************)
(* Extraction of the component from a realized module (ReactLoader)        *)
(***************************************************************************)

\* Module[name]: the value of the field, undefined when the object has none
Get(M, name) ==
  LET at == {i \in 1..Len(M.fields) : M.fields[i][1] = name}
  IN IF at = {} THEN Undefined
     ELSE LET i == CHOOSE j \in at : TRUE IN <<M.fields[i][2], name>>

\* Object.keys(Module): the own field names in insertion order
ObjectKeys(M) == [i \in 1..Len(M.fields) |-> M.fields[i][1]]

\* v is null or undefined: what `??` passes over
Nullish(v) == v[1] \in {"null", "undefined"}

\* !!v
NotNullish(v) == ~Nullish(v)
Truthy(v) == v[1] \in {"function", "element", "object"}

\* typeof v === "function"
IsFunction(v) == v[1] = "function"

\* v is an object with a $$typeof property
IsElement(v) == v[1] = "element"

\* a ?? b ?? c ...: the first operand that is not nullish, else the last one
RECURSIVE Coalesce(_)
Coalesce(vs) ==
  IF Len(vs) = 1 \/ ~Nullish(Head(vs)) THEN Head(vs) ELSE Coalesce(Tail(vs))

RECURSIVE Join(_)
Join(chars) == IF chars = <<>> THEN "" ELSE Head(chars) \o Join(Tail(chars))

\* module.replace(/^.\//, ""): drops one leading character followed by "/"
ModuleName(path) ==
  Join(IF Len(path) >= 2 /\ path[2] = "/" THEN SubSeq(path, 3, Len(path)) ELSE path)

\* The lookups of lines 72-77, in their order
CandidateOrderAppFirst(moduleName) ==
  <<"App", "default", moduleName, "Component", "InboxApp", "MonitoringApp">>
CandidateOrder(moduleName) ==
  <<"default", moduleName, "App", "Component", "InboxApp", "MonitoringApp">>

\* ReactLoader.loadModuleFederationRemote, lines 65-102, applied to the value
\* that loadModule returned
ContainerExtract(M, path) ==
  LET order == CandidateOrder(ModuleName(path))
      component ==
        IF M.type = "function" THEN <<"function", "module">>
        ELSE IF M.type = "object"
        THEN Coalesce([i \in 1..Len(order) |-> Get(M, order[i])])
        ELSE Null
      keys == IF M.type = "object" THEN ObjectKeys(M) ELSE <<"N/A">>
  IN IF ~Truthy(component)
     THEN [ok |-> FALSE, component |-> component, err |-> "no_valid_component", keys |-> keys]
     ELSE IF ~IsFunction(component)
     THEN [ok |-> FALSE, component |-> component,
           err |-> IF IsElement(component) THEN "react_element" ELSE "invalid_type",
           keys |-> keys]
     ELSE [ok |-> TRUE, component |-> component, err |-> "none", keys |-> <<>>]

\* ReactLoader.load, lines 15-21, applied to the namespace that import() gave
ImportExtract(M) ==
  LET component == Coalesce(<<Get(M, "default"), Get(M, "App"), Get(M, "Component")>>)
  IN IF ~Truthy(component)
     THEN [ok |-> FALSE, component |-> component, err |-> "no_component", keys |-> <<>>]
     ELSE [ok |-> TRUE, component |-> component, err |-> "none", keys |-> <<>>]

\* Both extractions applied to one realized module and module path
Extract ==
  /\ ~extracted.done
  /\ realized # NoModule
  /\ extracted' = [done |-> TRUE,
                   container |-> ContainerExtract(realized, modPath),
                   import |-> ImportExtract(realized)]
  /\ UNCHANGED <<fed, slot, slotSfx, sharingInitialized, loadedContainers, callVars,
                 attVars, dispVars, realized, modPath, shellVars>>

(***************************************************************************)
(* ModuleFederationLoader.loadModule, up to its first suspension           *)
(***************************************************************************)

\* loadedContainers.has(remoteKey), line 148
CacheHasNever(ld, k) == FALSE
CacheHas(ld, k) == loadedContainers[ld][k] # 0

\* loadedContainers.delete(remoteKey) in the catch block, line 187
CacheKeepOnCatch(cache, ld, k) == cache
CacheClearOnCatch(cache, ld, k) == [cache EXCEPT ![ld] = [kk \in Keys |-> 0]]
CacheAfterCatch(cache, ld, k) == [cache EXCEPT ![ld][k] = 0]

\* initializeSharing returns at once when the flag is set, lines 35-37
SharingNeverAwaits(flag) == TRUE
SharingReturnsEarly(flag) == flag

\* container.get(modulePath) yields a factory: the remote exposes the path
HasFactory(container, path) == path = "./App"

\* The error of the latest earlier call for the same loader and key ("none"
\* when there is no such call or it has not failed).  Calls start in the order
\* of their numbers, so no call for the key started after that failure.
LatestErr(c, ld, k) ==
  LET same == {d \in Calls : d < c /\ callLoader[d] = ld /\ callKey[d] = k}
  IN IF same = {} THEN "none"
     ELSE callErr[CHOOSE d \in same : \A e \in same : e <= d]

StartCall(c, via, ld, k) ==
  /\ NoMicrotask
  /\ callSt[c] = "idle"
  /\ \A d \in Calls : d < c => callSt[d] # "idle"
  /\ (\A d \in Calls : d >= c) => k = FirstKey
  /\ callVia' = [callVia EXCEPT ![c] = via]
  /\ callLoader' = [callLoader EXCEPT ![c] = ld]
  /\ callKey' = [callKey EXCEPT ![c] = k]
  /\ settledAtStart' = [settledAtStart EXCEPT ![c] =
        {d \in Calls : Settled(d) /\ callLoader[d] = ld /\ callKey[d] = k}]
  /\ prevErr' = [prevErr EXCEPT ![c] = LatestErr(c, ld, k)]
  /\ UNCHANGED <<fed, slot, slotSfx, callPath, callRes, factoryCalls, promRes, promErr,
                 script, timer, slotAtCheck, initCalls, initOf, initFn, initRes, negDone,
                 loaded, fetches, imports, response, extVars>>
  /\ IF CacheHas(ld, k)
     THEN \* lines 148-149: await the cached promise
          LET a == loadedContainers[ld][k] IN
          /\ callAtt' = [callAtt EXCEPT ![c] = a]
          /\ callSt' = [callSt EXCEPT ![c] =
                CASE prom[a] = "pending" -> "await_cached"
                  [] prom[a] = "resolved" -> "await_get"
                  [] OTHER -> "rejected"]
          /\ callErr' = [callErr EXCEPT ![c] =
                IF prom[a] = "rejected" THEN promErr[a] ELSE "none"]
          /\ UNCHANGED <<sharingInitialized, loadedContainers, phase, prom, negCalled>>
     ELSE \* lines 155-159: loadRemoteContainer runs to its first await, then cache.set
          /\ callAtt' = [callAtt EXCEPT ![c] = c]
          /\ callSt' = [callSt EXCEPT ![c] = "await_load"]
          /\ callErr' = callErr
          /\ prom' = [prom EXCEPT ![c] = "pending"]
          /\ loadedContainers' = [loadedContainers EXCEPT ![ld][k] = c]
          /\ IF SharingReturnsEarly(sharingInitialized[ld])
             THEN /\ phase' = [phase EXCEPT ![c] = "check"]
                  /\ UNCHANGED <<sharingInitialized, negCalled>>
             ELSE IF fed
             THEN \* line 40: await __webpack_init_sharing__("default")
                  /\ phase' = [phase EXCEPT ![c] = "sharing"]
                  /\ negCalled' = [negCalled EXCEPT ![c] = TRUE]
                  /\ UNCHANGED sharingInitialized
             ELSE \* line 42 without a negotiation
                  /\ phase' = [phase EXCEPT ![c] = "check"]
                  /\ sharingInitialized' = [sharingInitialized EXCEPT ![ld] = TRUE]
                  /\ UNCHANGED negCalled

\* loader.loadModule(config, modulePath) on the shared instance
LoadModule(c) ==
  /\ c <= shell.limit
  /\ \E k \in Keys : StartCall(c, "direct", SharedLoader, k)
  /\ UNCHANGED <<callFw, callRemote, shellVars>>

\* PluginLoader.load(plugin) -> loadByFramework -> new ReactLoader() ->
\* new ModuleFederationLoader() -> loadModule({name, url}, modulePath || "./App"),
\* for a react descriptor with a remoteName, followed up to the settling of
\* loadModule; Load below covers every framework and what ReactLoader makes
\* of the module.
PluginLoaderLoad(c) ==
  /\ c <= shell.limit
  /\ \E k \in Keys : StartCall(c, "plugin", FreshLoader(c), k)
  /\ callFw' = [callFw EXCEPT ![c] = "react"]
  /\ callRemote' = [callRemote EXCEPT ![c] = TRUE]
  /\ UNCHANGED shellVars

\* __webpack_init_sharing__ completes; line 42 sets the flag
NegotiationDone(a) ==
  /\ NoMicrotask
  /\ phase[a] = "sharing"
  /\ UNCHANGED <<dispVars, extVars, shellVars>>
  /\ negDone' = [negDone EXCEPT ![a] = TRUE]
  /\ sharingInitialized' = [sharingInitialized EXCEPT ![callLoader[a]] = TRUE]
  /\ phase' = [phase EXCEPT ![a] = "check"]
  /\ UNCHANGED <<fed, slot, slotSfx, loadedContainers, callVars, prom, promRes,
                 promErr, script, timer, slotAtCheck, initCalls, initOf, initFn, initRes,
                 negCalled>>

(***************************************************************************)
(* Settling a load promise and the reactions of the calls that await it    *)
(***************************************************************************)

Waiting(a) == {c \in Calls : callAtt[c] = a /\ callSt[c] \in {"await_load", "await_cached"}}

\* A promise takes the first resolve or reject and ignores the later ones
SettlesAgain(a) == TRUE
SettlesNever(a) == FALSE
StillPending(a) == prom[a] = "pending"

\* resolve(container) / reject(error) / return / throw of loadRemoteContainer.
\* A settled promise ignores later resolve and reject calls.  The first caller
\* (lines 159, 185-192) evicts the key and rethrows; a caller that joined
\* (line 149) is rejected with the promise's own error.
Settle(a, res, container, err) ==
  IF StillPending(a)
  THEN /\ prom' = [prom EXCEPT ![a] = res]
       /\ promRes' = [promRes EXCEPT ![a] = container]
       /\ promErr' = [promErr EXCEPT ![a] = err]
       /\ callSt' = [c \in Calls |->
             IF c \in Waiting(a)
             THEN (IF res = "resolved" THEN "await_get" ELSE "rejected")
             ELSE callSt[c]]
       /\ callErr' = [c \in Calls |->
             IF c \in Waiting(a) /\ res = "rejected" THEN err ELSE callErr[c]]
       /\ loadedContainers' =
             IF res = "rejected" /\ a \in Waiting(a)
             THEN CacheAfterCatch(loadedContainers, callLoader[a], callKey[a])
             ELSE loadedContainers
  ELSE UNCHANGED <<prom, promRes, promErr, callSt, callErr, loadedContainers>>

\* __webpack_share_scopes__?.default, lines 59 and 111.  webpack's runtime
\* provides the share scope map together with __webpack_init_sharing__, so
\* the default scope exists exactly in a host that has the runtime.
ShareScopeAbsent == FALSE
ShareScopeDefault == fed

\* What a container's init does when invoked: the container has no init
\* function, init returns a non-promise, init throws, init returns a promise.
InitOutcomes == {"noinit", "sync", "throw", "async"}

\* The catch block around container.init, lines 116-121 (on the path of lines
\* 59-62 the async function itself throws): the load is rejected
InitCatchResolves(a, container) == Settle(a, "resolved", container, "none")
InitCatch(a, container) == Settle(a, "rejected", NoContainer, "init_failed")

\* What the guard `container.init && __webpack_share_scopes__?.default` and the
\* init call behind it do, lines 59-62 and 110-122.  Without an init function
\* the guard is false before the share scope is read.  In a host without the
\* runtime the read either finds no default scope (init is skipped) or, where
\* the identifier is not defined at all, throws a ReferenceError, which
\* rejects the load like a failing init does.
InvokeInit(a, container, o, waitPhase) ==
  /\ initFn' = [initFn EXCEPT ![a] = IF o = "noinit" THEN "no" ELSE "yes"]
  /\ IF o = "noinit"
     THEN /\ phase' = [phase EXCEPT ![a] = "end"]
          /\ UNCHANGED <<initCalls, initOf, initRes>>
          /\ Settle(a, "resolved", container, "none")
     ELSE IF ~ShareScopeDefault
     THEN /\ phase' = [phase EXCEPT ![a] = "end"]
          /\ UNCHANGED <<initCalls, initOf, initRes>>
          /\ \/ Settle(a, "resolved", container, "none")
             \/ Settle(a, "rejected", NoContainer, "init_failed")
     ELSE /\ initCalls' = [initCalls EXCEPT ![a] = @ + 1]
          /\ initOf' = [initOf EXCEPT ![a] = container]
          /\ CASE o = "sync" ->
                    /\ phase' = [phase EXCEPT ![a] = "end"]
                    /\ initRes' = [initRes EXCEPT ![a] = "ok"]
                    /\ Settle(a, "resolved", container, "none")
               [] o = "throw" ->
                    /\ phase' = [phase EXCEPT ![a] = "end"]
                    /\ initRes' = [initRes EXCEPT ![a] = "failed"]
                    /\ InitCatch(a, container)
               [] OTHER ->
                    /\ phase' = [phase EXCEPT ![a] = waitPhase]
                    /\ initRes' = [initRes EXCEPT ![a] = "pending"]
                    /\ UNCHANGED <<prom, promRes, promErr, callSt, callErr, loadedContainers>>

(***************************************************************************)
(* ModuleFederationLoader.loadRemoteContainer                              *)
(***************************************************************************)

\* globalScope[containerKey] is truthy, line 56
SlotNeverHolds(n) == FALSE
SlotHolds(n) == slot[n] # NoContainer

\* clearTimeout(timeout), lines 79 and 126: an armed timer is cancelled, one
\* that has fired is not affected
TimeoutNotCleared(t) == t
ClearTimeout(t) == IF t = "armed" THEN "cleared" ELSE t

\* The state of the script element after the timer callback ran, line 74
ScriptLeftByTimeout(s) == s
ScriptAfterTimeout(s) == "removed"

\* The continuation of `await this.initializeSharing()`, lines 52-131
SlotCheck(a) ==
  /\ phase[a] = "check"
  /\ UNCHANGED <<dispVars, extVars, shellVars>>
  /\ slotAtCheck' = [slotAtCheck EXCEPT ![a] = slot[KeyName(callKey[a])]]
  /\ UNCHANGED <<fed, slot, slotSfx, sharingInitialized, callVia, callLoader, callKey,
                 callPath, callAtt, callRes, factoryCalls, settledAtStart, prevErr,
                 negCalled, negDone>>
  /\ IF SlotHolds(KeyName(callKey[a]))
     THEN \* lines 56-63: the registered container, no script
          /\ UNCHANGED <<script, timer>>
          /\ \E o \in InitOutcomes :
                InvokeInit(a, slot[KeyName(callKey[a])], o, "preinit")
     ELSE \* lines 66-76, 131: inject the script and arm the timer
          /\ script' = [script EXCEPT ![a] = "inDoc"]
          /\ timer' = [timer EXCEPT ![a] = "armed"]
          /\ phase' = [phase EXCEPT ![a] = "script"]
          /\ UNCHANGED <<initCalls, initOf, initFn, initRes, prom, promRes, promErr,
                         callSt, callErr, loadedContainers>>

\* Where an executed remote entry script leaves its container.
Registrations == {"exact", "suffix", "nowhere"}

\* The script executes and its load event fires: lines 78-82
ScriptLoaded(a) ==
  /\ NoMicrotask
  /\ phase[a] = "script"
  /\ UNCHANGED <<dispVars, extVars, shellVars>>
  /\ \E r \in Registrations :
        /\ slot' = IF r = "exact"
                   THEN [slot EXCEPT ![KeyName(callKey[a])] = ScriptContainer(a)]
                   ELSE slot
        /\ slotSfx' = IF r = "suffix"
                      THEN [slotSfx EXCEPT ![KeyName(callKey[a])] = ScriptContainer(a)]
                      ELSE slotSfx
  /\ timer' = [timer EXCEPT ![a] = ClearTimeout(@)]
  /\ phase' = [phase EXCEPT ![a] = "settle"]
  /\ UNCHANGED <<fed, sharingInitialized, loadedContainers, callVars, prom, promRes,
                 promErr, script, slotAtCheck, initCalls, initOf, initFn, initRes,
                 negCalled, negDone>>

\* globalScope[containerKey] || globalScope[`${containerKey}_container`] || globalScope[scope]
FindContainer(n) == IF slot[n] # NoContainer THEN slot[n] ELSE slotSfx[n]

\* The 100 ms settle delay elapsed: lines 84-122
SettleElapsed(a) ==
  /\ NoMicrotask
  /\ phase[a] = "settle"
  /\ UNCHANGED <<dispVars, extVars, shellVars>>
  /\ UNCHANGED <<fed, slot, slotSfx, sharingInitialized, callVia, callLoader, callKey,
                 callPath, callAtt, callRes, factoryCalls, settledAtStart, prevErr,
                 script, timer, slotAtCheck, negCalled, negDone>>
  /\ IF FindContainer(KeyName(callKey[a])) = NoContainer
     THEN \* lines 90-107
          /\ phase' = [phase EXCEPT ![a] = "end"]
          /\ UNCHANGED <<initCalls, initOf, initFn, initRes>>
          /\ Settle(a, "rejected", NoContainer, "not_found")
     ELSE \E o \in InitOutcomes :
             InvokeInit(a, FindContainer(KeyName(callKey[a])), o, "init")

\* The promise returned by container.init settles: lines 60 and 115-121
InitSettled(a) ==
  /\ NoMicrotask
  /\ phase[a] \in {"preinit", "init"}
  /\ UNCHANGED <<dispVars, extVars, shellVars>>
  /\ phase' = [phase EXCEPT ![a] = "end"]
  /\ UNCHANGED <<fed, slot, slotSfx, sharingInitialized, callVia, callLoader, callKey,
                 callPath, callAtt, callRes, factoryCalls, settledAtStart, prevErr,
                 script, timer, slotAtCheck, initCalls, initOf, initFn, negCalled, negDone>>
  /\ \/ /\ initRes' = [initRes EXCEPT ![a] = "ok"]
        /\ Settle(a, "resolved", initOf[a], "none")
     \/ /\ initRes' = [initRes EXCEPT ![a] = "failed"]
        /\ InitCatch(a, initOf[a])

\* script.onerror, lines 125-129
ScriptError(a) ==
  /\ NoMicrotask
  /\ phase[a] = "script"
  /\ UNCHANGED <<dispVars, extVars, shellVars>>
  /\ timer' = [timer EXCEPT ![a] = ClearTimeout(@)]
  /\ script' = [script EXCEPT ![a] = "removed"]
  /\ phase' = [phase EXCEPT ![a] = "end"]
  /\ UNCHANGED <<fed, slot, slotSfx, sharingInitialized, callVia, callLoader, callKey,
                 callPath, callAtt, callRes, factoryCalls, settledAtStart, prevErr,
                 slotAtCheck, initCalls, initOf, initFn, initRes, negCalled, negDone>>
  /\ Settle(a, "rejected", NoContainer, "script_error")

\* The 30 s timer fires, lines 73-76.  The element is removed, but a fetch
\* already under way may still deliver its load or error event later.
Timeout(a) ==
  /\ NoMicrotask
  /\ timer[a] = "armed"
  /\ UNCHANGED <<dispVars, extVars, shellVars>>
  /\ timer' = [timer EXCEPT ![a] = "fired"]
  /\ script' = [script EXCEPT ![a] = ScriptAfterTimeout(@)]
  /\ UNCHANGED <<fed, slot, slotSfx, sharingInitialized, callVia, callLoader, callKey,
                 callPath, callAtt, callRes, factoryCalls, settledAtStart, prevErr,
                 phase, slotAtCheck, initCalls, initOf, initFn, initRes, negCalled, negDone>>
  /\ Settle(a, "rejected", NoContainer, "timeout")

(***************************************************************************)
(* loadModule after the container promise resolved                         *)
(***************************************************************************)

\* Module paths as the character sequences the extraction works on
PathChars(p) == IF p = "./App" THEN <<".", "/", "App">> ELSE <<".", "/", "Missing">>

\* A load through PluginLoader: what ReactLoader makes of the module M that
\* loadModule returned for path p, lines 54-107.  An error thrown here is
\* wrapped by the catch block and rejects the load.
ReactLoaderResult(c, p, M) ==
  LET r == ContainerExtract(M, PathChars(p)) IN
  IF r.ok
  THEN /\ callSt' = [callSt EXCEPT ![c] = "resolved"]
       /\ loaded' = [loaded EXCEPT ![c] = LoadedReact(r.component)]
       /\ callErr' = callErr
  ELSE /\ callSt' = [callSt EXCEPT ![c] = "rejected"]
       /\ callErr' = [callErr EXCEPT ![c] = r.err]
       /\ loaded' = loaded

\* The outcome of call c's lookup of module path p: lines 150-151 for a
\* caller that joined, lines 162-193 for the first caller.
GetResult(c, p) ==
  /\ callPath' = [callPath EXCEPT ![c] = p]
  /\ IF HasFactory(promRes[callAtt[c]], p)
     THEN /\ factoryCalls' = [factoryCalls EXCEPT ![c] = @ + 1]
          /\ callRes' = [callRes EXCEPT ![c] = promRes[callAtt[c]]]
          /\ UNCHANGED loadedContainers
          /\ IF callVia[c] = "dispatch"
             THEN \E M \in DispatchModules : ReactLoaderResult(c, p, M)
             ELSE /\ callSt' = [callSt EXCEPT ![c] = "resolved"]
                  /\ UNCHANGED <<callErr, loaded>>
     ELSE /\ callSt' = [callSt EXCEPT ![c] = "rejected"]
          /\ UNCHANGED <<factoryCalls, callRes, loaded>>
          /\ IF callAtt[c] = c
             THEN \* lines 164-168, 185-192
                  /\ callErr' = [callErr EXCEPT ![c] = "module_not_found"]
                  /\ loadedContainers' =
                        CacheAfterCatch(loadedContainers, callLoader[c], callKey[c])
             ELSE \* line 151: calling undefined
                  /\ callErr' = [callErr EXCEPT ![c] = "type_error"]
                  /\ UNCHANGED loadedContainers

\* `await container.get(modulePath)` completes.  modulePath, an argument of
\* the call, is not read before this point, so it is drawn here.
GetComplete(c) ==
  /\ NoMicrotask
  /\ callSt[c] = "await_get"
  /\ UNCHANGED <<fed, slot, slotSfx, sharingInitialized, callVia, callLoader, callKey,
                 callAtt, settledAtStart, prevErr, attVars, callFw, callRemote,
                 fetches, imports, response, extVars, shellVars>>
  /\ \E p \in Paths : GetResult(c, p)

(***************************************************************************)
(* PluginLoader.load and the strategies without a container                *)
(***************************************************************************)

\* The switch of loadByFramework, part_004 lines 14-31
StrategyUnknownAsFrame(fw) ==
  CASE fw \in {"react", "vue"} -> "ReactLoader"
    [] fw = "html" -> "HtmlLoader"
    [] OTHER -> "AngularLoader"
StrategyVueAsMarkup(fw) ==
  CASE fw = "react" -> "ReactLoader"
    [] fw = "angular" -> "AngularLoader"
    [] fw \in {"html", "vue"} -> "HtmlLoader"
    [] OTHER -> "unsupported"
StrategyFrameAsMarkup(fw) ==
  CASE fw \in {"react", "vue"} -> "ReactLoader"
    [] fw \in {"html", "angular"} -> "HtmlLoader"
    [] OTHER -> "unsupported"
Strategy(fw) ==
  CASE fw \in {"react", "vue"} -> "ReactLoader"
    [] fw = "angular" -> "AngularLoader"
    [] fw = "html" -> "HtmlLoader"
    [] OTHER -> "unsupported"

\* A load that settles or suspends without calling loadModule
LoadWithoutContainer(c, k, st, err, res, nFetch, nImport) ==
  /\ callSt' = [callSt EXCEPT ![c] = st]
  /\ callErr' = [callErr EXCEPT ![c] = err]
  /\ loaded' = [loaded EXCEPT ![c] = res]
  /\ fetches' = [fetches EXCEPT ![c] = @ + nFetch]
  /\ imports' = [imports EXCEPT ![c] = @ + nImport]
  /\ callVia' = [callVia EXCEPT ![c] = "dispatch"]
  /\ callKey' = [callKey EXCEPT ![c] = k]
  /\ UNCHANGED <<fed, slot, slotSfx, sharingInitialized, loadedContainers, callLoader,
                 callPath, callAtt, callRes, factoryCalls, settledAtStart, prevErr,
                 attVars, response, extVars>>

\* PluginLoader.load(plugin) for a descriptor with framework fw, entryUrl
\* KeyUrl(k) and, when remote, remoteName KeyName(k).  A behaviour makes one
\* such load: the strategies are constructed per load and share no state.
Load(c) ==
  /\ NoMicrotask
  /\ \A d \in Calls : callSt[d] = "idle"
  /\ \A d \in Calls : c <= d
  /\ UNCHANGED shellVars
  /\ \E fw \in FrameworkTags, remote \in BOOLEAN :
       /\ callFw' = [callFw EXCEPT ![c] = fw]
       /\ callRemote' = [callRemote EXCEPT ![c] = remote]
       /\ CASE Strategy(fw) = "ReactLoader" /\ remote ->
                 \* ReactLoader.load line 10, loadModuleFederationRemote lines 33-52
                 StartCall(c, "dispatch", FreshLoader(c), FirstKey)
            [] Strategy(fw) = "ReactLoader" /\ ~remote ->
                 \* ReactLoader.load line 14: await import(plugin.entryUrl)
                 LoadWithoutContainer(c, <<"none", KeyUrl(FirstKey)>>, "await_import",
                                      "none", NotLoaded, 0, 1)
            [] Strategy(fw) = "AngularLoader" ->
                 \* AngularLoader.load line 7
                 LoadWithoutContainer(c, <<"none", KeyUrl(FirstKey)>>, "resolved", "none",
                                      LoadedAngular(KeyUrl(FirstKey)), 0, 0)
            [] Strategy(fw) = "HtmlLoader" ->
                 \* HtmlLoader.load line 6: await fetch(plugin.entryUrl)
                 LoadWithoutContainer(c, <<"none", KeyUrl(FirstKey)>>, "await_fetch",
                                      "none", NotLoaded, 1, 0)
            [] OTHER ->
                 \* part_004 line 30
                 LoadWithoutContainer(c, <<"none", KeyUrl(FirstKey)>>, "rejected",
                                      "Unsupported framework: " \o fw, NotLoaded, 0, 0)

\* A step of a load that has no container: only the call's position, error
\* and result change
StrategyStep(c, st, err, res) ==
  /\ callSt' = [callSt EXCEPT ![c] = st]
  /\ callErr' = [callErr EXCEPT ![c] = err]
  /\ loaded' = [loaded EXCEPT ![c] = res]
  /\ UNCHANGED <<fed, slot, slotSfx, sharingInitialized, loadedContainers, callVia,
                 callLoader, callKey, callPath, callAtt, callRes, factoryCalls,
                 settledAtStart, prevErr, attVars, callFw, callRemote, fetches,
                 imports, extVars, shellVars>>

\* import(plugin.entryUrl) settles, ReactLoader.load lines 14-26: it rejects,
\* or gives the module namespace object
ImportSettled(c) ==
  /\ NoMicrotask
  /\ callSt[c] = "await_import"
  /\ UNCHANGED response
  /\ \/ StrategyStep(c, "rejected", "import_failed", NotLoaded)
     \/ \E M \in {D \in DispatchModules : D.type = "object"} :
          LET r == ImportExtract(M) IN
          IF r.ok THEN StrategyStep(c, "resolved", "none", LoadedReact(r.component))
          ELSE StrategyStep(c, "rejected", r.err, NotLoaded)

\* response.ok, HtmlLoader.load line 8
ResponseAnyStatus(r) == TRUE
ResponseOk(r) == r.ok

\* fetch(plugin.entryUrl) settles, HtmlLoader.load lines 6-10: it rejects
\* (no response), or resolves with a response of either status
FetchSettled(c) ==
  /\ NoMicrotask
  /\ callSt[c] = "await_fetch"
  /\ \/ /\ StrategyStep(c, "rejected", "fetch_failed", NotLoaded)
        /\ UNCHANGED response
     \/ \E ok \in BOOLEAN, body \in Bodies :
          LET r == [arrived |-> TRUE, ok |-> ok, text |-> body] IN
          /\ response' = [response EXCEPT ![c] = r]
          /\ IF ResponseOk(r)
             THEN StrategyStep(c, "await_text", "none", NotLoaded)
             ELSE StrategyStep(c, "rejected", "html_load_failed", NotLoaded)

\* response.text() settles, HtmlLoader.load lines 12-13
TextRead(c) ==
  /\ NoMicrotask
  /\ callSt[c] = "await_text"
  /\ UNCHANGED response
  /\ StrategyStep(c, "resolved", "none", LoadedHtml(response[c].text))

(***************************************************************************)
(* PluginRegistry.fetchPlugins                                             *)
(***************************************************************************)

\* contentType.includes("application/json"), PluginRegistry.ts line 84
Includes(ctype, token) == \E i \in 1..Len(ctype) : ctype[i] = token

\* data.filter((plugin) => plugin.enabled), lines 66, 92 and 124
FilterNothing(list) == list
FilterEnabled(list) == SelectSeq(list, LAMBDA plugin : plugin.enabled)

\* The second fetchPlugins has no content-type check; the first tests
\* !contentType || !contentType.includes("application/json"), line 84
NotJson(version, ctype) ==
  version = "checking" /\ (ctype = <<>> \/ ~Includes(ctype, "application/json"))

\* A step of fetchPlugins: only the registry changes
CatalogStep(next) ==
  /\ catalog' = next
  /\ UNCHANGED <<fed, slot, slotSfx, sharingInitialized, loadedContainers, callVars,
                 attVars, dispVars, extVars, shell>>

\* fetchPlugins() up to its first await: lines 61-76, or lines 116-117
FetchPlugins ==
  /\ catalog.st = "idle"
  /\ IF catalog.version = "checking" /\ catalog.mock
     THEN CatalogStep([catalog EXCEPT !.st = "resolved",
                                      !.result = FilterEnabled(MockPlugins)])
     ELSE CatalogStep([catalog EXCEPT !.st = "await_fetch"])

\* fetch(endpoint) settles, lines 76-91 or 117-123: it rejects (no
\* response), or resolves with a response of any status, content type and body
CatalogFetchSettled ==
  /\ catalog.st = "await_fetch"
  /\ \/ CatalogStep([catalog EXCEPT !.st = "rejected", !.err = "fetch_failed"])
     \/ \E ok \in BOOLEAN, ctype \in ContentTypes, body \in CatalogBodies :
          LET r == [arrived |-> TRUE, ok |-> ok, ctype |-> ctype, body |-> body] IN
          IF ~ResponseOk(r)
          THEN CatalogStep([catalog EXCEPT !.st = "rejected", !.resp = r,
                                           !.err = "status"])
          ELSE IF NotJson(catalog.version, ctype)
          THEN CatalogStep([catalog EXCEPT !.st = "await_text", !.resp = r])
          ELSE CatalogStep([catalog EXCEPT !.st = "await_json", !.resp = r,
                                           !.jsonCalled = TRUE])

\* response.text() settles, lines 85-88
CatalogTextRead ==
  /\ catalog.st = "await_text"
  /\ CatalogStep([catalog EXCEPT !.st = "rejected", !.textRead = TRUE,
                                   !.err = "expected_json"])

\* response.json() settles, lines 91-97 or 123-124: a SyntaxError for a body
\* that is not JSON, else the array, which is filtered and returned
CatalogJsonParsed ==
  /\ catalog.st = "await_json"
  /\ IF catalog.resp.body.json
     THEN CatalogStep([catalog EXCEPT !.st = "resolved",
                                      !.result = FilterEnabled(catalog.resp.body.list)])
     ELSE CatalogStep([catalog EXCEPT !.st = "rejected", !.err = "syntax_error"])

(***************************************************************************)
(* The shell: AuthProvider, App's routes, ProtectedRoute and DynamicRoute   *)
(***************************************************************************)

\* isAuthenticated: Boolean(user), part_002 line 74
IsAuthenticated(user) == user # NoUser

\* What a route element renders: the location it leaves the router at and
\* the plugin route whose DynamicRoute it mounts
Page(loc, plugin) == [location |-> loc, plugin |-> plugin]

\* ProtectedRoute, part_000 lines 11-16
ProtectedRouteOpen(isAuthenticated, children) == children
ProtectedRoute(isAuthenticated, children) ==
  IF ~isAuthenticated THEN Page("/auth", NoRoute) ELSE children

\* App's <Routes>, part_000 lines 47-125: /auth shows the login page or
\* navigates to the dashboard; a plugin route exists once the plugin list
\* is set.  A <Navigate> renders the route it leads to in the same commit.
Render(isAuthenticated, loc, plugins) ==
  CASE loc = "/auth" ->
         IF isAuthenticated THEN Page("/", NoRoute) ELSE Page("/auth", NoRoute)
    [] loc = "/" -> ProtectedRoute(isAuthenticated, Page("/", NoRoute))
    [] OTHER ->
         IF plugins THEN ProtectedRoute(isAuthenticated, Page(loc, loc))
         ELSE Page(loc, NoRoute)

\* Everything but the shell
loaderVars == <<fed, slot, slotSfx, sharingInitialized, loadedContainers, callVars,
                attVars, dispVars, extVars, catalog>>

\* React commits the render for user, location loc and the plugin list, and
\* runs the effects.  The element of every plugin route is a DynamicRoute at
\* the same place of the tree, so a change of plugin route keeps the mounted
\* instance with its state and re-runs its effect (deps [plugin]),
\* DynamicRoute.tsx lines 16-31: a new PluginLoader, setLoading(true),
\* setError(null), load(plugin).  Leaving the plugin routes unmounts it.
Commit(user, loc, visited, plugins) ==
  LET r == Render(IsAuthenticated(user), loc, plugins)
      old == shell.route
      base == [shell EXCEPT !.user = user, !.location = r.location,
                            !.visited = visited, !.plugins = plugins]
  IN IF r.plugin = NoRoute
     THEN /\ shell' = [base EXCEPT !.route = Unmounted]
          /\ UNCHANGED loaderVars
     ELSE IF r.plugin = old.plugin
     THEN /\ shell' = base
          /\ UNCHANGED loaderVars
     ELSE \E c \in Calls :
            LET inst == IF old.plugin = NoRoute THEN c ELSE old.inst IN
            /\ c <= shell.limit
            /\ StartCall(c, "plugin", FreshLoader(c), RouteKey(r.plugin))
            /\ callFw' = [callFw EXCEPT ![c] = "react"]
            /\ callRemote' = [callRemote EXCEPT ![c] = TRUE]
            /\ catalog' = catalog
            /\ shell' = [base EXCEPT
                  !.route = [plugin |-> r.plugin, inst |-> inst, current |-> c,
                             loading |-> TRUE, error |-> 0,
                             loaded |-> IF old.plugin = NoRoute THEN 0 ELSE old.loaded],
                  !.instOf[c] = inst,
                  !.authAtStart[c] = IsAuthenticated(user)]

\* login(email) on the login page, part_002 lines 61-65
Login ==
  /\ NoMicrotask
  /\ shell.location = "/auth" /\ ~IsAuthenticated(shell.user)
  /\ Commit("user@k11", shell.location, shell.visited, shell.plugins)

\* handleLogout of the Layout, Layout.tsx lines 53-56: logout(); navigate("/auth")
Logout ==
  /\ NoMicrotask
  /\ shell.location # "/auth" /\ IsAuthenticated(shell.user)
  /\ Commit(NoUser, "/auth", "/auth", shell.plugins)

\* A link of the Layout, or the browser's history, leads to location loc
Navigate(loc) ==
  /\ NoMicrotask
  /\ loc # shell.location
  /\ Commit(shell.user, loc, loc, shell.plugins)

\* fetchPlugins resolved and App set the plugin list, part_000 lines 31-42
PluginsFetched ==
  /\ NoMicrotask
  /\ ~shell.plugins
  /\ Commit(shell.user, shell.location, shell.visited, TRUE)

\* The load of effect run c has settled and its callback has not run
CallbackReady(c) == callVia[c] = "plugin" /\ Settled(c) /\ c \notin shell.notified

\* The .then / .catch callback of effect run c, DynamicRoute.tsx lines
\* 23-30: setLoaded or setError, and setLoading(false), on the instance that
\* ran the effect; on an unmounted instance they do nothing
LoadCallback(c) ==
  /\ CallbackReady(c)
  /\ UNCHANGED loaderVars
  /\ shell' =
       IF shell.route.inst # 0 /\ shell.instOf[c] = shell.route.inst
       THEN [shell EXCEPT !.notified = @ \cup {c},
                          !.route.loading = FALSE,
                          !.route.loaded = IF callSt[c] = "resolved" THEN c ELSE @,
                          !.route.error = IF callSt[c] = "rejected" THEN c ELSE @]
       ELSE [shell EXCEPT !.notified = @ \cup {c}]

\* The steps of loadRemoteContainer and loadModule after the negotiation
ContainerStep ==
  \/ \E a \in Calls : SlotCheck(a)
  \/ \E a \in Calls : ScriptLoaded(a)
  \/ \E a \in Calls : SettleElapsed(a)
  \/ \E a \in Calls : InitSettled(a)
  \/ \E a \in Calls : ScriptError(a)
  \/ \E a \in Calls : Timeout(a)
  \/ \E c \in Calls : GetComplete(c)

\* The steps of the loaders once calls have been made
LoaderStep ==
  \/ \E a \in Calls : NegotiationDone(a)
  \/ ContainerStep

\* A client that holds one ModuleFederationLoader and calls loadModule on it
Next ==
  \/ \E c \in Calls : LoadModule(c)
  \/ LoaderStep

Spec == Init /\ [][Next]_vars

\* The shell: every load goes through PluginLoader.load, as in DynamicRoute
NextPlugin ==
  \/ \E c \in Calls : PluginLoaderLoad(c)
  \/ LoaderStep

SpecPlugin == Init /\ [][NextPlugin]_vars

\* One PluginLoader.load of a descriptor of any framework
NextDispatch ==
  \/ \E c \in Calls : Load(c)
  \/ LoaderStep
  \/ \E c \in Calls : ImportSettled(c)
  \/ \E c \in Calls : FetchSettled(c)
  \/ \E c \in Calls : TextRead(c)

SpecDispatch == Init /\ [][NextDispatch]_vars

\* One fetchPlugins of either version of the registry; the first version
\* built with or without USE_MOCK_PLUGINS
InitRegistry ==
  /\ InitWith(TRUE)
  /\ slot = [n \in Names |-> NoContainer]
  /\ NoExtraction
  /\ NoShell
  /\ catalog \in {IdleCatalog("checking", FALSE), IdleCatalog("checking", TRUE),
                  IdleCatalog("plain", FALSE)}

NextRegistry ==
  \/ FetchPlugins
  \/ CatalogFetchSettled
  \/ CatalogTextRead
  \/ CatalogJsonParsed

SpecRegistry == InitRegistry /\ [][NextRegistry]_vars

\* The shell opened at any location, nobody logged in
InitShell ==
  /\ InitWith(TRUE)
  /\ slot = [n \in Names |-> NoContainer]
  /\ NoExtraction
  /\ NoRegistry
  /\ \E loc \in Locations : shell = InitialShell(Render(FALSE, loc, FALSE).location)

\* The callbacks of a settled load run before any other task
ShellStep ==
  /\ \A c \in Calls : ~CallbackReady(c)
  /\ \/ Login
     \/ Logout
     \/ \E loc \in Locations : Navigate(loc)
     \/ PluginsFetched
     \/ LoaderStep

NextShell ==
  \/ \E c \in Calls : LoadCallback(c)
  \/ ShellStep

SpecShell == InitShell /\ [][NextShell]_vars

\* The same shell followed over MaxLoads loads
InitAuth ==
  /\ InitWith(TRUE)
  /\ slot = [n \in Names |-> NoContainer]
  /\ NoExtraction
  /\ NoRegistry
  /\ \E loc \in Locations :
       shell = [InitialShell(Render(FALSE, loc, FALSE).location) EXCEPT !.limit = MaxLoads]

SpecAuth == InitAuth /\ [][NextShell]_vars

\* The extraction as a function of the realized module and the module path
InitExtract ==
  /\ InitWith(TRUE)
  /\ NoRegistry
  /\ NoShell
  /\ slot = [n \in Names |-> NoContainer]
  /\ realized \in Modules
  /\ modPath \in ExtractPaths

SpecExtract == InitExtract /\ [][Extract]_vars

\* In a host without the runtime no negotiation is ever awaited and no init
\* is ever invoked
NextNoFederation ==
  \/ \E c \in Calls : LoadModule(c)
  \/ \E a \in Calls : SlotCheck(a)
  \/ \E a \in Calls : ScriptLoaded(a)
  \/ \E a \in Calls : SettleElapsed(a)
  \/ \E a \in Calls : ScriptError(a)
  \/ \E a \in Calls : Timeout(a)
  \/ \E c \in Calls : GetComplete(c)

SpecNoFederation == InitNoFederation /\ [][NextNoFederation]_vars

\* A client that calls loadModule on its loader or loads through
\* PluginLoader, in a host with or without the federation runtime, followed
\* over MaxLoads calls, in an event loop that runs every ready continuation
\* and fires every timer that stays armed (the 30 s timer, the 100 ms settle
\* delay), with containers whose init promise settles.  Nothing obliges the
\* network to answer: the script's load and error events, the negotiation
\* and container.get may stay out for ever.
InitFair ==
  /\ \E f \in BOOLEAN : InitWith(f)
  /\ NoExtraction
  /\ NoRegistry
  /\ shell = [InitialShell("/auth") EXCEPT !.limit = MaxLoads]

NextFair ==
  \/ \E c \in Calls : LoadModule(c)
  \/ \E c \in Calls : PluginLoaderLoad(c)
  \/ LoaderStep

Fairness ==
  \A a \in Calls :
    /\ WF_vars(SlotCheck(a))
    /\ WF_vars(Timeout(a))
    /\ WF_vars(SettleElapsed(a))
    /\ WF_vars(InitSettled(a))

SpecFair == InitFair /\ [][NextFair]_vars /\ Fairness

TypeOK ==
  /\ callSt \in [Calls -> {"idle", "await_load", "await_cached", "await_get",
                           "await_import", "await_fetch", "await_text",
                           "resolved", "rejected"}]
  /\ \A c \in Calls : loaded[c].kind \in {"none", "react", "html", "angular"}
  /\ fetches \in [Calls -> 0..1]
  /\ imports \in [Calls -> 0..1]
  /\ prom \in [Calls -> {"none", "pending", "resolved", "rejected"}]
  /\ script \in [Calls -> {"none", "inDoc", "removed"}]
  /\ timer \in [Calls -> {"none", "armed", "cleared", "fired"}]
  /\ initCalls \in [Calls -> 0..1]
  /\ initFn \in [Calls -> {"unknown", "yes", "no"}]
  /\ initRes \in [Calls -> {"none", "pending", "ok", "failed"}]

(***************************************************************************)
(* Properties                                                              *)
(***************************************************************************)

Started(c) == callSt[c] # "idle"
Direct(c) == callVia[c] = "direct"

\* c and d are concurrent calls for one key of one loader: both started, and
\* no call for that key settled between the start of one and the other.
SameWave(c, d) ==
  /\ Started(c) /\ Started(d)
  /\ callLoader[c] = callLoader[d]
  /\ callKey[c] = callKey[d]
  /\ settledAtStart[c] = settledAtStart[d]

Wave(c) == {d \in Calls : SameWave(c, d)}
AttemptsOf(G) == {callAtt[c] : c \in G}
ScriptsInjectedBy(G) == Cardinality({a \in AttemptsOf(G) : script[a] # "none"})
InitsInvokedBy(G) == Cardinality({a \in AttemptsOf(G) : initCalls[a] > 0})
Quiet(a) == phase[a] = "end" \/ (phase[a] = "script" /\ timer[a] = "fired")

C2_ProcessWideAtMostOnce ==
  \A k \in Keys :
    LET as == {a \in Calls : callVia[a] = "plugin" /\ callKey[a] = k} IN
    /\ Cardinality({a \in as : script[a] # "none"}) <= 1
    /\ Cardinality({a \in as : initCalls[a] > 0}) <= 1

LoadErrors == {"script_error", "timeout", "not_found", "init_failed"}

\* The attempt of call c has read the registry slot (line 56).
PastCheck(c) == slotAtCheck[c] # "unread"

\* C3 as stated: the call that follows a failed loadModule call for the same
\* key finds no cache entry (it is a first caller, with a load promise of its
\* own) and injects a fresh script element.
C3_Original ==
  \A c \in Calls :
    (Started(c) /\ prevErr[c] # "none") =>
      /\ callAtt[c] = c
      /\ PastCheck(c) => script[c] # "none"

\* C3, amended: after a loadModule call for a key has failed because the
\* load of the container was rejected (script error, timeout, container not
\* found, init failure), the cache entry for that key is gone: the next
\* loadModule call for the key does not get the old rejected promise but
\* starts a load of its own, which injects a fresh script element unless the
\* registry slot of the remote name holds a container by then.
C3_RetryAfterFailure ==
  /\ \A l \in Loaders, k \in Keys :
        loadedContainers[l][k] # 0 => prom[loadedContainers[l][k]] # "rejected"
  /\ \A c \in Calls :
        (Started(c) /\ prevErr[c] \in LoadErrors) =>
          /\ callAtt[c] = c
          /\ (PastCheck(c) /\ slotAtCheck[c] = NoContainer) => script[c] # "none"

\* A call that follows a failed load of its key has injected a script of its own.
C3_Witness ==
  \E c \in Calls :
    /\ Direct(c) /\ prevErr[c] \in LoadErrors
    /\ callAtt[c] = c /\ script[c] # "none"

\* C4: whenever a container's init has been invoked, an invocation of
\* __webpack_init_sharing__ on the same loader has completed before; this
\* covers calls for different remotes that overlap while the negotiation is
\* still awaited.
C4_NegotiationBeforeInit ==
  \A a \in Calls :
    initCalls[a] > 0 =>
      \E b \in Calls : callLoader[b] = callLoader[a] /\ negDone[b]

\* Two calls of one loader for different remotes both started while the
\* negotiation was pending, and a container's init has been invoked.
C4_Witness ==
  \E a, b \in Calls :
    /\ a # b /\ callLoader[a] = callLoader[b] /\ callKey[a] # callKey[b]
    /\ negCalled[a] /\ negCalled[b]
    /\ initCalls[b] > 0

\* C5 as stated: on one loader __webpack_init_sharing__ is invoked at most
\* once, whatever the number of repeated or overlapping calls.
C5_OneTimeNegotiation ==
  \A l \in Loaders :
    Cardinality({a \in Calls : callLoader[a] = l /\ negCalled[a]}) <= 1

\* C6 as stated: once the load promise of a key has resolved, the cache of
\* its loader keeps the entry for that key.
C6_SuccessPersists ==
  \A a \in Calls :
    prom[a] = "resolved" => loadedContainers[callLoader[a]][callKey[a]] = a

\* C7 as stated: when a load that injected a script element has been
\* rejected, the element has been removed from the document.
C7_NoDanglingScript ==
  \A a \in Calls :
    (prom[a] = "rejected" /\ script[a] # "none") => script[a] = "removed"

\* C8: when the timer of a load has fired (neither a load nor an error event
\* came before), the load promise is rejected with the timeout error, the
\* injected script element is removed from the document, and the first
\* caller is rejected.
C8_TimeoutBehaviour ==
  \A a \in Calls :
    timer[a] = "fired" =>
      /\ prom[a] = "rejected" /\ promErr[a] = "timeout"
      /\ script[a] = "removed"
      /\ callSt[a] = "rejected"

\* A timer has fired.
C8_Witness ==
  \E a \in Calls : timer[a] = "fired" /\ callErr[a] = "timeout"

\* The attempt found a container in the registry slot at line 56.
FoundRegistered(a) == PastCheck(a) /\ slotAtCheck[a] # NoContainer

\* C9 as stated: when the registry slot holds a container at the time
\* loadRemoteContainer reads it, that container is returned and no script
\* element is injected.
C9_Original ==
  \A a \in Calls :
    (FoundRegistered(a) /\ phase[a] = "end") =>
      /\ prom[a] = "resolved" /\ promRes[a] = slotAtCheck[a]
      /\ script[a] = "none"

\* C9, amended: when the registry slot holds a container at the time
\* loadRemoteContainer reads it, no script element is injected and no timer
\* is armed; the load resolves with that container, unless the container's
\* init throws or rejects, in which case the load is rejected.
C9_PreRegistered ==
  \A a \in Calls :
    FoundRegistered(a) =>
      /\ script[a] = "none" /\ timer[a] = "none"
      /\ phase[a] \in {"preinit", "end"}
      /\ phase[a] = "end" => prom[a] \in {"resolved", "rejected"}
      /\ prom[a] = "resolved" => promRes[a] = slotAtCheck[a]
      /\ prom[a] = "rejected" => promErr[a] = "init_failed"

\* A load resolved with the container a previous page had registered.
C9_Witness ==
  \E a \in Calls :
    /\ slotAtCheck[a] = PrevContainer
    /\ prom[a] = "resolved" /\ promRes[a] = PrevContainer
    /\ script[a] = "none"

\* C10 as stated: a call whose container.get(modulePath) yielded no factory,
\* first caller or not, is rejected with the module-not-found error and has
\* invoked no factory.
C10_ModuleNotFound ==
  \A c \in Calls :
    (callPath[c] # "none" /\ ~HasFactory(promRes[callAtt[c]], callPath[c])) =>
      /\ callSt[c] = "rejected" /\ callErr[c] = "module_not_found"
      /\ factoryCalls[c] = 0

\* Call c has called container.get (lines 150 and 162).
GetCalled(c) == callSt[c] = "await_get" \/ callPath[c] # "none"

C13_FatalConfigError ==
  \A c \in Calls :
    (~fed /\ Started(c) /\ PastCheck(callAtt[c])) =>
      /\ callSt[c] = "rejected" /\ callErr[c] = "config_error"
      /\ script[callAtt[c]] = "none"
      /\ initCalls[callAtt[c]] = 0

\* The step rejects the load promise of attempt a or rejects call a.
FailsNow(a) ==
  \/ prom[a] = "pending" /\ prom'[a] = "rejected"
  \/ callSt[a] # "rejected" /\ callSt'[a] = "rejected"

\* The step leaves everything that belongs to a key other than k as it was.
OtherKeysUntouched(k) ==
  /\ \A l \in Loaders, k2 \in Keys :
        k2 # k => loadedContainers'[l][k2] = loadedContainers[l][k2]
  /\ \A n \in Names :
        n # KeyName(k) => slot'[n] = slot[n] /\ slotSfx'[n] = slotSfx[n]
  /\ \A b \in Calls :
        (Started(b) /\ callKey[b] # k) =>
          /\ callSt'[b] = callSt[b] /\ callErr'[b] = callErr[b]
          /\ callRes'[b] = callRes[b] /\ callAtt'[b] = callAtt[b]
          /\ prom'[b] = prom[b] /\ promRes'[b] = promRes[b] /\ promErr'[b] = promErr[b]
          /\ phase'[b] = phase[b] /\ script'[b] = script[b] /\ timer'[b] = timer[b]
          /\ initCalls'[b] = initCalls[b] /\ initRes'[b] = initRes[b]

\* C14: a step in which a load or a call for one key fails changes nothing of
\* any other key: their cache entries, their load promises and the position
\* of their loads, and the outcome of their calls stay as they were.
C14_FailureIsolation ==
  [][\A a \in Calls : FailsNow(a) => OtherKeysUntouched(callKey'[a])]_vars

\* On one loader a call for one key was rejected by a failed load while the
\* call for another key resolved and its cache entry is in place.
C14_Witness ==
  \E c, d \in Calls :
    /\ callLoader[c] = callLoader[d] /\ callKey[c] # callKey[d]
    /\ callSt[c] = "rejected" /\ callErr[c] \in LoadErrors
    /\ callSt[d] = "resolved"
    /\ loadedContainers[callLoader[d]][callKey[d]] = callAtt[d]

\* Call c went through PluginLoader.load with a descriptor of any framework.
Dispatched(c) == callVia[c] = "dispatch"

\* Call c started no container load: no attempt, no script element, no timer.
NoContainerLoad(c) ==
  /\ callAtt[c] = 0 /\ phase[c] = "none" /\ prom[c] = "none"
  /\ script[c] = "none" /\ timer[c] = "none" /\ ~negCalled[c]

\* C15: PluginLoader.load of a descriptor whose framework is none of react,
\* vue, angular, html is rejected with the error "Unsupported framework: "
\* followed by the value, and has started no fetch, no dynamic import and no
\* script injection.  (Checked under SpecDispatch.)
C15_UnknownFramework ==
  \A c \in Calls :
    (Dispatched(c) /\ callFw[c] \notin Frameworks) =>
      /\ callSt[c] = "rejected"
      /\ callErr[c] = "Unsupported framework: " \o callFw[c]
      /\ fetches[c] = 0 /\ imports[c] = 0
      /\ NoContainerLoad(c)
      /\ loaded[c] = NotLoaded

\* A load of a descriptor with framework "svelte" has been rejected.
C15_Witness ==
  \E c \in Calls :
    Dispatched(c) /\ callFw[c] = "svelte" /\ callSt[c] = "rejected"

\* The kind that the framework tag fixes
KindOf(fw) ==
  CASE fw \in {"react", "vue"} -> "react"
    [] fw = "html" -> "html"
    [] fw = "angular" -> "angular"
    [] OTHER -> "none"

\* The loaded value carries the payload of its kind and no other.
OneKind(l) ==
  /\ l.kind \in {"react", "html", "angular"}
  /\ (l.component # Undefined) <=> (l.kind = "react")
  /\ (l.html # "none") <=> (l.kind = "html")
  /\ (l.iframeSrc # "none") <=> (l.kind = "angular")

\* C16: every PluginLoader.load that resolved yields a loaded value of
\* exactly one of the three kinds, and the kind is the one its framework tag
\* fixes: the component kind for react and vue (with or without remoteName),
\* the markup kind for html, the frame kind for angular.  (Checked under
\* SpecDispatch.)
C16_NormalizedResult ==
  \A c \in Calls :
    (Dispatched(c) /\ callSt[c] = "resolved") =>
      /\ OneKind(loaded[c])
      /\ loaded[c].kind = KindOf(callFw[c])

\* A load of a vue descriptor resolved with the component kind.
C16_Witness ==
  \E c \in Calls :
    /\ Dispatched(c) /\ callFw[c] = "vue" /\ callSt[c] = "resolved"
    /\ loaded[c].kind = "react" /\ IsFunction(loaded[c].component)

\* The names of the fields of a module object
FieldSet(M) == {M.fields[i][1] : i \in 1..Len(M.fields)}

\* The candidate fields in the order the claim gives for a module path "./X"
ClaimedOrder(path) == <<"default", path[3], "App", "Component", "InboxApp", "MonitoringApp">>

\* The position in order of the first field of M that is not null (0: none)
FirstNonNull(M, order) ==
  LET nn == {i \in 1..Len(order) : Get(M, order[i])[1] \notin {"null", "undefined"}}
  IN IF nn = {} THEN 0 ELSE CHOOSE i \in nn : \A j \in nn : i <= j

\* The objects with the fields of M in every insertion order
Reorderings(M) ==
  LET n == Len(M.fields)
      perms == {q \in [1..n -> 1..n] : \A i, j \in 1..n : q[i] = q[j] => i = j}
  IN {ObjectModule([i \in 1..n |-> M.fields[q[i]]]) : q \in perms}

\* C17: for a realized module object the extracted component is the value
\* of the first non-null field in the order default, the module path without
\* "./", App, Component, InboxApp, MonitoringApp, and the load resolves with
\* it when it is a function; the result is the same for every insertion
\* order of the fields; fields {default, InboxApp, App} yield default's value
\* and a sole field InboxApp with path ./InboxApp yields that field.
\* (Checked under SpecExtract.)
C17_ExtractionPrecedence ==
  (extracted.done /\ realized.type = "object") =>
    LET order == ClaimedOrder(modPath)
        i == FirstNonNull(realized, order)
        r == extracted.container
    IN /\ i = 0 => ~r.ok /\ r.component[1] \in {"null", "undefined"}
       /\ i # 0 => /\ r.component = Get(realized, order[i])
                   /\ r.ok <=> r.component[1] = "function"
       /\ \A P \in Reorderings(realized) :
             /\ ContainerExtract(P, modPath).ok = r.ok
             /\ ContainerExtract(P, modPath).component = r.component
             /\ ContainerExtract(P, modPath).err = r.err
       /\ (FieldSet(realized) = {"default", "InboxApp", "App"}
             /\ Get(realized, "default")[1] # "null") =>
                r.component = Get(realized, "default")
       /\ (FieldSet(realized) = {"InboxApp"} /\ modPath = <<".", "/", "InboxApp">>
             /\ Get(realized, "InboxApp")[1] # "null") =>
                r.component = Get(realized, "InboxApp")

\* A module with the fields default, InboxApp and App, all functions, has
\* been extracted to default's value.
C17_Witness ==
  /\ extracted.done
  /\ FieldSet(realized) = {"default", "InboxApp", "App"}
  /\ \A f \in FieldSet(realized) : Get(realized, f)[1] = "function"
  /\ extracted.container.ok
  /\ extracted.container.component = <<"function", "default">>

\* C18 as stated: when no candidate field is present the load fails with the
\* did-not-export error that lists the module's own keys; when the candidate
\* found is not a function it fails with an invalid-shape error (the
\* rendered-element one exactly for a React element); it never resolves with
\* a non-function.
C18_Original ==
  (extracted.done /\ realized.type = "object") =>
    LET order == ClaimedOrder(modPath)
        i == FirstNonNull(realized, order)
        r == extracted.container
    IN /\ i = 0 => r.err = "no_valid_component" /\ r.keys = ObjectKeys(realized)
       /\ (i # 0 /\ Get(realized, order[i])[1] # "function") =>
             /\ r.err \in {"react_element", "invalid_type"}
             /\ r.err = "react_element" <=> Get(realized, order[i])[1] = "element"
       /\ r.ok => r.component[1] = "function"

\* C18, amended: when no candidate field of the realized module holds a
\* non-null value, or the first non-null candidate holds a falsy value (0, "",
\* false), the load fails with the did-not-export error that lists the
\* module's own keys; when the first non-null candidate holds a truthy value
\* that is not a function, it fails with a different invalid-shape error (the
\* rendered-element one exactly when the value is a React element); it never
\* resolves with a non-function component.
C18_ExportErrors ==
  (extracted.done /\ realized.type = "object") =>
    LET order == ClaimedOrder(modPath)
        i == FirstNonNull(realized, order)
        r == extracted.container
    IN /\ (i = 0 \/ (i # 0 /\ Get(realized, order[i])[1] = "falsy")) =>
             r.err = "no_valid_component" /\ r.keys = ObjectKeys(realized)
       /\ (i # 0 /\ Get(realized, order[i])[1] \in {"element", "object"}) =>
             /\ r.err \in {"react_element", "invalid_type"}
             /\ r.err = "react_element" <=> Get(realized, order[i])[1] = "element"
       /\ r.ok <=> (i # 0 /\ Get(realized, order[i])[1] = "function")
       /\ r.ok => r.component[1] = "function"

\* A module whose default export is a React element, next to a function
\* under App, has failed with the rendered-element error.
C18_Witness ==
  /\ extracted.done
  /\ Get(realized, "default")[1] = "element"
  /\ Get(realized, "App")[1] = "function"
  /\ extracted.container.err = "react_element"

\* The errors of the two paths that say the same thing
SameFailure(e1, e2) ==
  \/ e1 = e2
  \/ {e1, e2} = {"no_component", "no_valid_component"}

\* C19 as stated: for one realized module object and module path, the plain
\* dynamic import path and the container path yield the same component or
\* the same kind of failure.  (Checked under SpecExtract.)
C19_SecondaryEquivalence ==
  (extracted.done /\ realized.type = "object") =>
    /\ extracted.import.ok = extracted.container.ok
    /\ extracted.import.ok =>
          extracted.import.component = extracted.container.component
    /\ ~extracted.import.ok =>
          SameFailure(extracted.import.err, extracted.container.err)

\* C20: a load of an angular descriptor resolves to the frame kind whose
\* source is the descriptor's entryUrl, and has made no fetch, no dynamic
\* import, no script injection and no change of any loader's cache.
\* (Checked under SpecDispatch.)
C20_IsolatedFrame ==
  \A c \in Calls :
    (Dispatched(c) /\ callFw[c] = "angular") =>
      /\ callSt[c] = "resolved"
      /\ loaded[c] = LoadedAngular(KeyUrl(callKey[c]))
      /\ fetches[c] = 0 /\ imports[c] = 0
      /\ NoContainerLoad(c)
      /\ \A l \in Loaders, k \in Keys : loadedContainers[l][k] = 0
      /\ \A n \in Names : slotSfx[n] = NoContainer

\* A load of an angular descriptor resolved with its entryUrl as the source.
C20_Witness ==
  \E c \in Calls :
    /\ Dispatched(c) /\ callFw[c] = "angular" /\ callSt[c] = "resolved"
    /\ loaded[c].iframeSrc = KeyUrl(FirstKey)

\* C21: a load of an html descriptor issues one fetch of entryUrl and starts
\* no dynamic import, no container load and no script injection; when the
\* response's status is not successful the load is rejected; when it is
\* successful the load resolves to the markup kind whose html is the
\* response's text, and it resolves in no other case.  (Checked under
\* SpecDispatch.)
C21_MarkupLoad ==
  \A c \in Calls :
    (Dispatched(c) /\ callFw[c] = "html") =>
      /\ fetches[c] = 1 /\ imports[c] = 0
      /\ NoContainerLoad(c)
      /\ (response[c].arrived /\ ~response[c].ok) =>
            callSt[c] = "rejected" /\ loaded[c] = NotLoaded
      /\ (response[c].arrived /\ response[c].ok) =>
            /\ callSt[c] \in {"await_text", "resolved"}
            /\ callSt[c] = "resolved" =>
                  loaded[c].kind = "html" /\ loaded[c].html = response[c].text
      /\ callSt[c] = "resolved" => response[c].arrived /\ response[c].ok

\* An html load resolved with the non-empty text of a successful response.
C21_Witness ==
  \E c \in Calls :
    /\ Dispatched(c) /\ callFw[c] = "html" /\ callSt[c] = "resolved"
    /\ response[c].ok /\ response[c].text = "<p>plugin</p>"
    /\ loaded[c] = LoadedHtml("<p>plugin</p>")

\* The positions of list whose descriptor is enabled
EnabledAt(list) == {i \in 1..Len(list) : list[i].enabled}

\* The k-th smallest element of a set of numbers
Nth(S, k) == CHOOSE i \in S : Cardinality({j \in S : j <= i}) = k

\* C22: when fetchPlugins resolves from a catalog response, its result
\* holds exactly the descriptors of the response whose enabled flag is true:
\* one entry per enabled position of the response, in the order of those
\* positions.  (Checked under SpecRegistry.)
C22_DisabledFiltering ==
  (catalog.st = "resolved" /\ catalog.resp.arrived) =>
    LET list == catalog.resp.body.list
        E == EnabledAt(list)
    IN /\ Len(catalog.result) = Cardinality(E)
       /\ \A k \in 1..Len(catalog.result) : catalog.result[k] = list[Nth(E, k)]

\* fetchPlugins resolved from a response with a disabled descriptor between
\* two enabled ones.
C22_Witness ==
  /\ catalog.st = "resolved" /\ catalog.resp.arrived
  /\ Len(catalog.resp.body.list) = 3
  /\ catalog.resp.body.list[1].enabled /\ ~catalog.resp.body.list[2].enabled
  /\ catalog.resp.body.list[3].enabled
  /\ catalog.resp.body.list[1].id # catalog.resp.body.list[3].id
  /\ Len(catalog.result) = 2

\* The response's media type is JSON
JsonType(ctype) == ctype # <<>> /\ ctype[1] = "application/json"

\* C23: fetchPlugins is rejected when the response's status is not
\* successful or its content type is not JSON; the body of a response whose
\* content type is not JSON is never parsed as JSON; a rejected fetchPlugins
\* returns no list.  (Checked under SpecRegistry.)
C23_CatalogFailure ==
  /\ (catalog.resp.arrived /\ (~catalog.resp.ok \/ ~JsonType(catalog.resp.ctype))) =>
        /\ catalog.st # "resolved"
        /\ catalog.st \in {"await_text", "rejected"}
  /\ (catalog.resp.arrived /\ ~JsonType(catalog.resp.ctype)) => ~catalog.jsonCalled
  /\ catalog.st = "rejected" => catalog.result = <<>>

\* What an attempt has done, and what a call has done
AttemptState(a) ==
  <<phase[a], script[a], timer[a], slotAtCheck[a], initCalls[a], initOf[a], initRes[a]>>
CallState(c) ==
  <<callSt[c], callErr[c], callAtt[c], callPath[c], callRes[c], factoryCalls[c]>>

\* In every step: a script element once injected is never injected again, a
\* timer once cancelled or fired is never armed again, init is invoked at
\* most once, and a settled load promise keeps its outcome.
OnceOnly(a) ==
  /\ script[a] = "removed" => script'[a] = "removed"
  /\ script[a] = "inDoc" => script'[a] # "none"
  /\ timer[a] \in {"cleared", "fired"} => timer'[a] = timer[a]
  /\ initCalls'[a] <= 1
  /\ prom[a] \in {"resolved", "rejected"} =>
        prom'[a] = prom[a] /\ promRes'[a] = promRes[a] /\ promErr'[a] = promErr[a]
  /\ callSt[a] \in {"resolved", "rejected"} => CallState(a)' = CallState(a)

C25_TimeoutScope ==
  \A a \in Calls :
    /\ phase[a] \in {"settle", "init", "end"} => timer[a] # "armed"
    /\ timer[a] = "cleared" => promErr[a] # "timeout"
    /\ promErr[a] = "timeout" => timer[a] = "fired"
    /\ callErr[a] = "timeout" => promErr[callAtt[a]] = "timeout"

\* The load event fired in time; the settle delay and an asynchronous init
\* ran, and the load resolved.
C25_Witness ==
  \E a \in Calls :
    /\ timer[a] = "cleared" /\ initRes[a] = "ok" /\ prom[a] = "resolved"
    /\ callSt[a] = "resolved"

\* C26: an attempt that the timeout rejected invokes no init, whatever
\* arrives later for its script, and stays rejected with the timeout error.
C26_LateLoadEvent ==
  \A a \in Calls :
    promErr[a] = "timeout" =>
      /\ prom[a] = "rejected"
      /\ initCalls[a] = 0 /\ initRes[a] = "none" /\ initOf[a] = NoContainer

\* C27: a load never resolves with a container registered by the script of
\* an attempt for another entryUrl, and an attempt that finds such a
\* container registered injects its own script.
C27_RemoteIdentity ==
  \A a, b \in Calls :
    KeyUrl(callKey[b]) # KeyUrl(callKey[a]) =>
      /\ prom[a] = "resolved" => promRes[a] # ScriptContainer(b)
      /\ slotAtCheck[a] = ScriptContainer(b) => script[a] # "none"

\* C28 as stated: while the load of the plugin that a mounted DynamicRoute
\* now has is pending, the component is loading; when it is not loading, the
\* module or the error it shows is the one of that load.  (Checked under
\* SpecShell.)
C28_StaleLoad ==
  LET r == shell.route IN
  r.plugin # NoRoute =>
    /\ r.current \notin shell.notified => r.loading
    /\ (~r.loading /\ r.error # 0) => r.error = r.current
    /\ (~r.loading /\ r.error = 0 /\ r.loaded # 0) => r.loaded = r.current

\* C29: a DynamicRoute is mounted only while a user is logged in, every
\* load was started while a user was logged in, and once the plugin routes
\* exist the shell without a user is at /auth.  (Checked under SpecAuth.)
C29_NoLoadUnauthenticated ==
  /\ shell.route.plugin # NoRoute => IsAuthenticated(shell.user)
  /\ \A c \in Calls : Started(c) => shell.authAtStart[c]
  /\ (~IsAuthenticated(shell.user) /\ shell.plugins) => shell.location = "/auth"

\* Nobody is logged in, the plugin routes exist and the last visit was to a
\* plugin route: the shell is at /auth, nothing is mounted and no load has
\* been started.
C29_Witness ==
  /\ ~IsAuthenticated(shell.user) /\ shell.plugins
  /\ shell.visited \in PluginRoutes /\ shell.location = "/auth"
  /\ shell.route = Unmounted
  /\ \A c \in Calls : ~Started(c)

\* The attempt waits for its script: the promise hangs on the load event,
\* the error event and the timer
ScriptWaiting(a) == phase[a] = "script" /\ timer[a] = "armed"

\* How the attempt left the wait: the load event cancelled the timer and
\* left the element in the document, the error event cancelled the timer
\* and removed the element, or the timer fired
LeftByLoad(a) == timer[a] = "cleared" /\ script[a] = "inDoc"
LeftByError(a) == timer[a] = "cleared" /\ script[a] = "removed"
LeftByTimeout(a) == timer[a] = "fired"

\* C30: when the timer fires unless cancelled, every attempt that waits for
\* its script leaves the wait, by the load event, by the error event or by
\* the timeout; and when the settle delay elapses and the container's init
\* returns, an attempt whose load event fired settles.  (Checked under
\* SpecFair.)
C30_ScriptPhaseTerminates ==
  \A a \in Calls :
    /\ ScriptWaiting(a) ~> (LeftByLoad(a) \/ LeftByError(a) \/ LeftByTimeout(a))
    /\ (phase[a] = "settle") ~> (prom[a] \in {"resolved", "rejected"})

\* The load event fired for a waiting attempt, init was invoked and
\* returned, and the attempt settled.
C30_Witness ==
  \E a \in Calls :
    /\ LeftByLoad(a) /\ phase[a] = "end" /\ initRes[a] = "ok" /\ prom[a] = "resolved"

====
